---- MODULE Spec2Model ----
(***************************************************************************)
(* Model of streamlit_app.py: the cached query helper q, the filter        *)
(* predicate (sql_quote, where_sql), the render pass that sends the six     *)
(* queries, the discount-band CASE, the top-discounted ranking and the      *)
(* insight-pack viewer.                                                     *)
(*                                                                          *)
(* A text (a brand, an SQL statement) is a sequence of tokens.  The quote   *)
(* character "'" is always a token of its own, so that the string-literal   *)
(* rule of SQL can be applied to a text token by token.                     *)
(***************************************************************************)
EXTENDS Integers, Sequences, FiniteSets, TLC

VARIABLES
    now,            \* the clock st.cache_data reads
    cache,          \* st.cache_data's store for q: a set of [sql, res, at]
    filled,         \* history: the last gateway answer stored per SQL text
    last_call,      \* history: the last call of q and what it did
    pc,             \* position of the script in the render pass
    passes,         \* number of render passes started
    brands,         \* line 37
    brand_sel,      \* line 39
    min_disc,       \* line 41
    min_rating,     \* line 42, in tenths
    where_sql,      \* line 53
    kpis,           \* line 66
    asked,          \* history: the calls of q made in this pass
    rendered,       \* the sections drawn in this pass
    failure,        \* the exception that ended the pass, if any
    val,            \* argument of sql_quote under test
    quoted,         \* its result
    discount_percent, \* a row's discount, in 1/Scale percent, or NULL
    band,           \* the band the CASE expression gives it
    table,          \* trent.products: row -> number of copies
    top_discounted, \* line 133
    pack_state,     \* the files of analytics_out/packs: label -> content
    memo,           \* lru_cache of load_pack: a set of [path, value]
    chosen,         \* line 180
    pack_i,         \* loop index of line 185
    pack_view,      \* what each column shows
    pack_pc         \* position in the pack viewer

vars == << now, cache, filled, last_call, pc, passes, brands, brand_sel,
           min_disc, min_rating, where_sql, kpis, asked, rendered, failure,
           val, quoted, discount_percent, band, table, top_discounted,
           pack_state, memo, chosen, pack_i, pack_view, pack_pc >>

cacheVars == << now, cache, filled, last_call >>
passVars == << pc, passes, brands, brand_sel, min_disc, min_rating, where_sql,
               kpis, asked, rendered, failure >>
quoteVars == << val, quoted >>
bandVars == << discount_percent, band >>
rankVars == << table, top_discounted >>
packVars == << pack_state, memo, chosen, pack_i, pack_view, pack_pc >>

-----------------------------------------------------------------------------
(* Bounds *)

MaxStrLen == 4      \* longest argument of sql_quote explored
MaxBrandLen == 2    \* longest brand in the catalog
MaxPasses == 2      \* render passes per behaviour
MaxTime == 301      \* the clock stops here
MaxCalls == 4       \* q calls per behaviour of the cache specification
Scale == 10         \* discount_percent is explored in steps of 1/Scale
MaxCopies == 26     \* copies of one row in the table
MaxPacks == 2       \* files in analytics_out/packs

(* Program constants *)

TTL == 300
LIMIT == 50

\* the alphabet of brands: a letter, the quote, and a statement separator
Alphabet == {"a", "'", ";"}

StringsUpTo(n) == UNION {[1..k -> Alphabet] : k \in 0..n}

-----------------------------------------------------------------------------
(* sql_quote, lines 31-33 *)

RECURSIVE replace(_)
\* val.replace("'", "''")
replace(s) ==
    IF s = << >> THEN << >>
    ELSE (IF Head(s) = "'" THEN <<"'", "'">> ELSE <<Head(s)>>) \o replace(Tail(s))

sql_quote_undoubled(v) == <<"'">> \o v \o <<"'">>

sql_quote(v) == <<"'">> \o replace(v) \o <<"'">>

-----------------------------------------------------------------------------
(* Nullable values: a column value is << >> (NULL, None) or <<x>> *)

Null == << >>
Some(x) == <<x>>

-----------------------------------------------------------------------------
(* The filter predicate, lines 44-53 *)

RECURSIVE join(_, _)
\* sep.join(parts), parts a sequence of texts
join(sep, parts) ==
    IF parts = << >> THEN << >>
    ELSE IF Len(parts) = 1 THEN parts[1]
    ELSE parts[1] \o sep \o join(sep, Tail(parts))

brand_csv_raw(sel) == join(<<",">>, [i \in 1..Len(sel) |-> <<"'">> \o sel[i] \o <<"'">>])

\* line 46
brand_csv(sel) == join(<<",">>, [i \in 1..Len(sel) |-> sql_quote(sel[i])])

\* f"{min_rating}" of a float given in tenths: 4.5, 5.0
float_str(r) == <<ToString(r \div 10), ".", ToString(r % 10)>>

where_clauses_always_disc(sel, d, r) ==
    << <<"1=1">> >>
    \o (IF sel # << >> THEN << <<"brand IN (">> \o brand_csv(sel) \o <<")">> >> ELSE << >>)
    \o << <<"discount_percent >= ", ToString(d)>> >>
    \o (IF r > 0 THEN << <<"rating >= ">> \o float_str(r) >> ELSE << >>)

\* lines 44-51
where_clauses(sel, d, r) ==
    << <<"1=1">> >>
    \o (IF sel # << >> THEN << <<"brand IN (">> \o brand_csv(sel) \o <<")">> >> ELSE << >>)
    \o (IF d > 0 THEN << <<"discount_percent >= ", ToString(d)>> >> ELSE << >>)
    \o (IF r > 0 THEN << <<"rating >= ">> \o float_str(r) >> ELSE << >>)

\* line 53
where_of(sel, d, r) == join(<<" AND ">>, where_clauses(sel, d, r))

-----------------------------------------------------------------------------
(* The six SQL texts of a render pass *)

SCHEMA_TABLE == "trent.products"

\* line 36
brands_sql == <<"SELECT", " DISTINCT brand FROM ", SCHEMA_TABLE, " ORDER BY 1">>

\* lines 56-65
kpis_sql(w) ==
    <<"SELECT", " COUNT(*) AS products, ROUND(AVG(price),2) AS avg_price,",
      " ROUND(AVG(mrp),2) AS avg_mrp, ROUND(AVG(discount_percent),2) AS avg_discount_pct,",
      " SUM(CASE WHEN price = mrp THEN 1 ELSE 0 END) AS no_discount_items",
      " FROM ", SCHEMA_TABLE, " WHERE ">> \o w

\* lines 79-94
bands_sql(w) ==
    <<"SELECT", " band, COUNT(*) AS items FROM ( ", "SELECT", " CASE",
      " WHEN discount_percent = 0 THEN ", "'", "0%", "'",
      " WHEN discount_percent < 20 THEN ", "'", "0-20%", "'",
      " WHEN discount_percent < 40 THEN ", "'", "20-40%", "'",
      " WHEN discount_percent < 60 THEN ", "'", "40-60%", "'",
      " ELSE ", "'", "60%+", "'", " END AS band FROM ", SCHEMA_TABLE,
      " WHERE ">> \o w \o <<" ) b GROUP BY band ORDER BY items DESC">>

\* lines 102-116
price_buckets_sql(w) ==
    <<"SELECT", " CASE",
      " WHEN price < 500 THEN ", "'", "<500", "'",
      " WHEN price < 1000 THEN ", "'", "500-999", "'",
      " WHEN price < 2000 THEN ", "'", "1000-1999", "'",
      " WHEN price < 5000 THEN ", "'", "2000-4999", "'",
      " ELSE ", "'", "5000+", "'", " END AS price_bucket, COUNT(*) AS items,",
      " ROUND(AVG(discount_percent),2) AS avg_discount_pct FROM ", SCHEMA_TABLE,
      " WHERE ">> \o w \o <<" GROUP BY price_bucket ORDER BY items DESC">>

\* lines 133-139
top_discounted_sql(w) ==
    <<"SELECT", " product_id, title, brand, price, mrp, discount_percent, rating, rating_total",
      " FROM ", SCHEMA_TABLE, " WHERE ">> \o w
    \o <<" ORDER BY discount_percent DESC, price ASC", " LIMIT ", ToString(LIMIT)>>

\* lines 140-146
top_rated_sql(w) ==
    <<"SELECT", " product_id, title, brand, rating, rating_total, price, mrp, discount_percent",
      " FROM ", SCHEMA_TABLE, " WHERE ">> \o w
    \o <<" AND rating_total >= 100 AND rating >= 4",
         " ORDER BY rating DESC, rating_total DESC", " LIMIT ", ToString(LIMIT)>>

-----------------------------------------------------------------------------
(* What the SQL texts compute.  A product row is                           *)
(*   [brand, price, mrp, discount_percent, rating, rating_total]           *)
(* with brand, discount_percent and rating nullable; discount_percent is    *)
(* in units of 1/Scale percent and rating in tenths.  A table is a          *)
(* function from rows to their number of copies.                            *)

\* WHERE where_sql (lines 44-53) on one row; a comparison with NULL is not true
matches(row, sel, d, r) ==
    /\ sel # << >> =>
          /\ row.brand # Null
          /\ \E i \in 1..Len(sel) : sel[i] = row.brand[1]
    /\ d > 0 => (row.discount_percent # Null /\ row.discount_percent[1] >= d * Scale)
    /\ r > 0 => (row.rating # Null /\ row.rating[1] >= r)

matching(tbl, sel, d, r) == {row \in DOMAIN tbl : matches(row, sel, d, r)}

DiscountBand_closed(dp) ==
    IF dp # Null /\ dp[1] = 0 THEN "0%"
    ELSE IF dp # Null /\ dp[1] <= 20 * Scale THEN "0-20%"
    ELSE IF dp # Null /\ dp[1] <= 40 * Scale THEN "20-40%"
    ELSE IF dp # Null /\ dp[1] <= 60 * Scale THEN "40-60%"
    ELSE "60%+"

\* the CASE expression of lines 82-88, first match wins
DiscountBand(dp) ==
    IF dp # Null /\ dp[1] = 0 THEN "0%"
    ELSE IF dp # Null /\ dp[1] < 20 * Scale THEN "0-20%"
    ELSE IF dp # Null /\ dp[1] < 40 * Scale THEN "20-40%"
    ELSE IF dp # Null /\ dp[1] < 60 * Scale THEN "40-60%"
    ELSE "60%+"

\* the CASE expression of lines 103-109
PriceBucket(price) ==
    IF price < 500 THEN "<500"
    ELSE IF price < 1000 THEN "500-999"
    ELSE IF price < 2000 THEN "1000-1999"
    ELSE IF price < 5000 THEN "2000-4999"
    ELSE "5000+"

RECURSIVE SetToSeq(_)
SetToSeq(S) ==
    IF S = {} THEN << >>
    ELSE LET x == CHOOSE y \in S : TRUE IN <<x>> \o SetToSeq(S \ {x})

RECURSIVE total(_, _, _)
\* the sum of f[row] over the rows of S, each counted tbl[row] times
total(S, tbl, f) ==
    IF S = {} THEN 0
    ELSE LET x == CHOOSE y \in S : TRUE IN tbl[x] * f[x] + total(S \ {x}, tbl, f)

\* ROUND(sum / cnt, 2), in hundredths
round2(sum, cnt) == (200 * sum + cnt) \div (2 * cnt)

\* the one row of the KPI query, lines 57-64
kpis_row(tbl, sel, d, r) ==
    LET M == matching(tbl, sel, d, r)
        D == {row \in M : row.discount_percent # Null}
        one == [row \in M |-> 1]
        price == [row \in M |-> row.price]
        mrp == [row \in M |-> row.mrp]
        disc == [row \in D |-> row.discount_percent[1]]
        same == [row \in M |-> IF row.price = row.mrp THEN 1 ELSE 0]
        n == total(M, tbl, one)
    IN  [products |-> Some(n),
         avg_price |-> IF n = 0 THEN Null ELSE Some(round2(total(M, tbl, price), n)),
         avg_mrp |-> IF n = 0 THEN Null ELSE Some(round2(total(M, tbl, mrp), n)),
         avg_discount_pct |->
             IF D = {} THEN Null
             ELSE Some(round2(total(D, tbl, disc), Scale * total(D, tbl, one))),
         no_discount_items |-> IF n = 0 THEN Null ELSE Some(total(M, tbl, same))]

\* lines 80-93: one row per band, the larger counts first
bands_rows(tbl, sel, d, r) ==
    LET M == matching(tbl, sel, d, r)
        one == [row \in M |-> 1]
        items(b) == total({row \in M : DiscountBand(row.discount_percent) = b}, tbl, one)
        B == {DiscountBand(row.discount_percent) : row \in M}
        more(a, b) == items(a) > items(b)
    IN  LET s == SortSeq(SetToSeq(B), more)
        IN  [i \in 1..Len(s) |-> [band |-> s[i], items |-> items(s[i])]]

\* lines 103-115: one row per price bucket, the larger counts first
price_buckets_rows(tbl, sel, d, r) ==
    LET M == matching(tbl, sel, d, r)
        one == [row \in M |-> 1]
        items(b) == total({row \in M : PriceBucket(row.price) = b}, tbl, one)
        B == {PriceBucket(row.price) : row \in M}
        more(a, b) == items(a) > items(b)
    IN  LET s == SortSeq(SetToSeq(B), more)
        IN  [i \in 1..Len(s) |-> [price_bucket |-> s[i], items |-> items(s[i])]]

RECURSIVE repeat(_, _)
repeat(x, n) == IF n = 0 THEN << >> ELSE <<x>> \o repeat(x, n - 1)

RECURSIVE expand(_, _)
\* the rows of the sorted sequence s, each as often as the table holds it
expand(s, tbl) ==
    IF s = << >> THEN << >> ELSE repeat(Head(s), tbl[Head(s)]) \o expand(Tail(s), tbl)

first(s, n) == IF Len(s) <= n THEN s ELSE SubSeq(s, 1, n)

\* a NULL sorts as the largest value
key(v) == IF v = Null THEN 1000000 ELSE v[1]

\* whether ORDER BY lists row a before row b; tie is the order the engine gives
\* to rows its sort keys do not tell apart
by_price_desc(a, b, tie) ==
    IF key(a.discount_percent) # key(b.discount_percent)
    THEN key(a.discount_percent) > key(b.discount_percent)
    ELSE IF a.price # b.price THEN a.price > b.price
    ELSE IF tie = 1 THEN key(a.rating) < key(b.rating) ELSE key(a.rating) > key(b.rating)

\* ORDER BY discount_percent DESC, price ASC (line 137)
by_discount(a, b, tie) ==
    IF key(a.discount_percent) # key(b.discount_percent)
    THEN key(a.discount_percent) > key(b.discount_percent)
    ELSE IF a.price # b.price THEN a.price < b.price
    ELSE IF tie = 1 THEN key(a.rating) < key(b.rating) ELSE key(a.rating) > key(b.rating)

\* LIMIT 50 (line 138)
limit(s) == first(s, LIMIT)

\* the rows the top-discounted query selects from (line 136)
candidates(tbl, sel, d, r) == matching(tbl, sel, d, r)

\* lines 133-139
top_discounted_rows(tbl, sel, d, r, tie) ==
    LET before(a, b) == by_discount(a, b, tie)
    IN  limit(expand(SortSeq(SetToSeq(candidates(tbl, sel, d, r)), before), tbl))

\* ORDER BY rating DESC, rating_total DESC (line 144)
by_rating(a, b, tie) ==
    IF key(a.rating) # key(b.rating) THEN key(a.rating) > key(b.rating)
    ELSE IF a.rating_total # b.rating_total THEN a.rating_total > b.rating_total
    ELSE IF tie = 1 THEN a.price < b.price ELSE a.price > b.price

\* lines 140-146
top_rated_rows(tbl, sel, d, r, tie) ==
    LET before(a, b) == by_rating(a, b, tie)
        M == {row \in matching(tbl, sel, d, r) :
                 row.rating_total >= 100 /\ row.rating # Null /\ row.rating[1] >= 40}
    IN  limit(expand(SortSeq(SetToSeq(M), before), tbl))

-----------------------------------------------------------------------------
(* The Query Gateway, run_select_query (line 9): rows, None, or a          *)
(* structured error                                                         *)

Ok(rows) == [status |-> "ok", rows |-> rows, message |-> ""]
None == [status |-> "none", rows |-> << >>, message |-> ""]
Err(m) == [status |-> "error", rows |-> << >>, message |-> m]

Messages == {"timeout", "syntax"}

-----------------------------------------------------------------------------
(* q, lines 16-21, under st.cache_data(ttl=300) *)

\* the live entry of sql at time t, as a set of at most one element
live_inclusive(c, sql, t) == {e \in c : e.sql = sql /\ t <= e.at + TTL}

live(c, sql, t) == {e \in c : e.sql = sql /\ t < e.at + TTL}

\* line 21: pd.DataFrame(res or [])
DataFrame(resp) == IF resp.status = "ok" THEN resp.rows ELSE << >>

\* what q does when the gateway reports an error
on_error_store_empty(c, sql, resp, t) ==
    [raised |-> FALSE, msg |-> "", df |-> << >>, sent |-> <<sql>>,
     cache |-> {e \in c : e.sql # sql} \cup {[sql |-> sql, res |-> << >>, at |-> t]}]

\* lines 19-20: the failure is raised, st.cache_data stores nothing
on_error(c, sql, resp, t) ==
    [raised |-> TRUE, msg |-> resp.message, df |-> << >>, sent |-> <<sql>>,
     cache |-> {e \in c : e.sql # sql}]

\* the outcome of q(sql) at time t when the gateway would answer resp
q(c, sql, resp, t) ==
    IF live(c, sql, t) # {}
    THEN [raised |-> FALSE, msg |-> "", df |-> (CHOOSE e \in live(c, sql, t) : TRUE).res,
          sent |-> << >>, cache |-> c]
    ELSE IF resp.status = "error"
    THEN on_error(c, sql, resp, t)
    ELSE [raised |-> FALSE, msg |-> "", df |-> DataFrame(resp), sent |-> <<sql>>,
          cache |-> {e \in c : e.sql # sql}
                    \cup {[sql |-> sql, res |-> DataFrame(resp), at |-> t]}]

\* the effect of a call of q on the cache and on the history variables
CallQ(sql, resp) ==
    LET o == q(cache, sql, resp, now) IN
    /\ cache' = o.cache
    /\ filled' = IF o.sent # << >> /\ resp.status # "error"
                 THEN {e \in filled : e.sql # sql}
                      \cup {[sql |-> sql, res |-> DataFrame(resp), at |-> now]}
                 ELSE filled
    /\ last_call' = [n |-> last_call.n + 1, sql |-> sql, at |-> now, sent |-> o.sent,
                     raised |-> o.raised, msg |-> o.msg, df |-> o.df,
                     resp |-> IF o.sent # << >> THEN resp ELSE None,
                     prev |-> {e \in filled : e.sql = sql},
                     before |-> [sql |-> last_call.sql, raised |-> last_call.raised]]
    /\ now' = now

NoCall == [n |-> 0, sql |-> << >>, at |-> 0, sent |-> << >>, raised |-> FALSE,
           msg |-> "", df |-> << >>, resp |-> None, prev |-> {},
           before |-> [sql |-> << >>, raised |-> FALSE]]

\* the clock advances
TickSteps == {TTL - 1, TTL, TTL + 1}

Advance(d) ==
    /\ now + d <= MaxTime
    /\ now' = now + d
    /\ UNCHANGED << cache, filled, last_call >>
    /\ UNCHANGED << passVars, quoteVars, bandVars, rankVars, packVars >>

Tick == \E d \in TickSteps : Advance(d)

-----------------------------------------------------------------------------
(* Values the variables of the other specifications rest at *)

NoFailure == [kind |-> "", msg |-> "", at |-> ""]

IdlePass ==
    /\ pc = "idle" /\ passes = 0 /\ brands = << >> /\ brand_sel = << >>
    /\ min_disc = 0 /\ min_rating = 0 /\ where_sql = << >> /\ kpis = Null
    /\ asked = << >> /\ rendered = {} /\ failure = NoFailure
IdleCache == now = 0 /\ cache = {} /\ filled = {} /\ last_call = NoCall
IdleQuote == val = << >> /\ quoted = << >>
IdleBand == discount_percent = Null /\ band = ""
IdleRank == table = << >> /\ top_discounted = Null
IdlePacks ==
    /\ pack_state = << >> /\ memo = {} /\ chosen = << >> /\ pack_i = 0
    /\ pack_view = << >> /\ pack_pc = "idle"

-----------------------------------------------------------------------------
(* SpecCache: calls of q on a few SQL texts, with the clock advancing *)

CacheTexts == {brands_sql, kpis_sql(<<"1=1">>)}
CacheRows == {<< >>, <<[brand |-> Some(<<"a">>)]>>}
CacheResponses == {Ok(r) : r \in CacheRows} \cup {None} \cup {Err(m) : m \in Messages}

CacheCall ==
    /\ last_call.n < MaxCalls
    /\ \E s \in CacheTexts, resp \in CacheResponses : CallQ(s, resp)
    /\ UNCHANGED << passVars, quoteVars, bandVars, rankVars, packVars >>

InitCache == IdleCache /\ IdlePass /\ IdleQuote /\ IdleBand /\ IdleRank /\ IdlePacks
NextCache == CacheCall \/ Tick
SpecCache == InitCache /\ [][NextCache]_vars

\* C1: a q(s) call made less than TTL after the gateway call that filled the
\* entry for s makes no gateway call and returns the stored result; a q(s) call
\* made once the entry has expired (or when s was never filled) makes exactly
\* one gateway call, with s.
C1_CacheTTL ==
    last_call.n > 0 =>
        /\ \A p \in last_call.prev :
              IF last_call.at - p.at < TTL
              THEN /\ last_call.sent = << >>
                   /\ ~last_call.raised
                   /\ last_call.df = p.res
              ELSE last_call.sent = <<last_call.sql>>
        /\ last_call.prev = {} => last_call.sent = <<last_call.sql>>
        /\ Cardinality(last_call.prev) <= 1

\* a second call inside the TTL window was served from the cache
C1_WitnessHit ==
    /\ last_call.n >= 2
    /\ \E p \in last_call.prev :
          /\ last_call.at - p.at < TTL /\ last_call.at > p.at
          /\ last_call.sent = << >> /\ p.res # << >>

\* a call made exactly TTL after the fill went to the gateway again
C1_WitnessExpired ==
    /\ \E p \in last_call.prev : last_call.at - p.at = TTL
    /\ last_call.sent = <<last_call.sql>>

\* C2: when the gateway answers q(s) with a structured error, q raises a
\* failure carrying the gateway's message and returns no table, the cache holds
\* no entry for s afterwards, and the next q(s) call invokes the gateway again.
C2_ErrorNotCached ==
    /\ (last_call.n > 0 /\ last_call.resp.status = "error") =>
          /\ last_call.raised
          /\ last_call.msg = last_call.resp.message
          /\ last_call.msg \in Messages
          /\ \A e \in cache : e.sql # last_call.sql
    /\ (last_call.before.raised /\ last_call.before.sql = last_call.sql) =>
          last_call.sent = <<last_call.sql>>

\* q(s) raised although s had been stored before, and the call before it had
\* raised for the same s
C2_Witness ==
    /\ last_call.resp.status = "error" /\ last_call.raised
    /\ last_call.prev # {}
    /\ last_call.before.raised /\ last_call.before.sql = last_call.sql

-----------------------------------------------------------------------------
(* The string-literal rule of SQL, by which the gateway reads a text: a    *)
(* literal opens at a quote; inside it a doubled quote stands for one       *)
(* quote and a lone quote ends the literal.                                 *)

RECURSIVE read_literal(_, _, _)
\* reads the literal of text t whose body starts at position i; acc is the
\* value decoded so far.  next is the position after the closing quote.
read_literal(t, i, acc) ==
    IF i > Len(t) THEN [closed |-> FALSE, value |-> acc, next |-> i]
    ELSE IF t[i] # "'" THEN read_literal(t, i + 1, Append(acc, t[i]))
    ELSE IF i + 1 <= Len(t) /\ t[i + 1] = "'" THEN read_literal(t, i + 2, Append(acc, "'"))
    ELSE [closed |-> TRUE, value |-> acc, next |-> i + 1]

-----------------------------------------------------------------------------
(* SpecQuote: sql_quote applied to every text over Alphabet up to MaxStrLen *)

Quote ==
    /\ quoted = << >>
    /\ quoted' = sql_quote(val)
    /\ UNCHANGED << val, cacheVars, passVars, bandVars, rankVars, packVars >>

InitQuote ==
    /\ val \in StringsUpTo(MaxStrLen) /\ quoted = << >>
    /\ IdleCache /\ IdlePass /\ IdleBand /\ IdleRank /\ IdlePacks
NextQuote == Quote
SpecQuote == InitQuote /\ [][NextQuote]_vars

\* C3: sql_quote(v) starts and ends with a quote, and its body, read by the
\* string-literal rule, is consumed entirely as one literal that decodes to v.
C3_QuoteRoundTrip ==
    quoted # << >> =>
        /\ Len(quoted) >= 2
        /\ quoted[1] = "'" /\ quoted[Len(quoted)] = "'"
        /\ LET r == read_literal(quoted, 2, << >>) IN
              /\ r.closed
              /\ r.next = Len(quoted) + 1
              /\ r.value = val

\* a value with a leading quote, an inner letter and two trailing quotes
C3_Witness ==
    /\ val = <<"'", "a", "'", "'">>
    /\ quoted = <<"'", "'", "'", "a", "'", "'", "'", "'", "'">>

-----------------------------------------------------------------------------
(* SpecBands: the discount-band CASE expression on every discount from     *)
(* -1 to 101 percent in steps of 1/Scale, and on NULL                       *)

Discounts == {Null} \cup {Some(x) : x \in (0 - Scale)..(101 * Scale)}

EvalBand ==
    /\ band = ""
    /\ band' = DiscountBand(discount_percent)
    /\ UNCHANGED << discount_percent, cacheVars, passVars, quoteVars, rankVars, packVars >>

InitBands ==
    /\ discount_percent \in Discounts /\ band = ""
    /\ IdleCache /\ IdlePass /\ IdleQuote /\ IdleRank /\ IdlePacks
NextBands == EvalBand
SpecBands == InitBands /\ [][NextBands]_vars

\* C8: every discount_percent in [0, 100] gets exactly one band: 0 gives '0%',
\* (0, 20) gives '0-20%', [20, 40) gives '20-40%', [40, 60) gives '40-60%' and
\* [60, 100] gives '60%+'.
C8_BandsPartition ==
    (/\ band # ""
     /\ discount_percent # Null
     /\ discount_percent[1] >= 0
     /\ discount_percent[1] <= 100 * Scale) =>
        LET x == discount_percent[1] IN
        /\ band \in {"0%", "0-20%", "20-40%", "40-60%", "60%+"}
        /\ band = "0%" <=> x = 0
        /\ band = "0-20%" <=> (0 < x /\ x < 20 * Scale)
        /\ band = "20-40%" <=> (20 * Scale <= x /\ x < 40 * Scale)
        /\ band = "40-60%" <=> (40 * Scale <= x /\ x < 60 * Scale)
        /\ band = "60%+" <=> 60 * Scale <= x

\* the boundary value 40 falls in '40-60%'
C8_Witness == discount_percent = Some(40 * Scale) /\ band = "40-60%"

\* the value just below 20 falls in '0-20%'
C8_WitnessBelow20 == discount_percent = Some(20 * Scale - 1) /\ band = "0-20%"

-----------------------------------------------------------------------------
(* SpecRank: the top-discounted query on tables of up to five kinds of     *)
(* rows, each held once or MaxCopies times, under every filter of           *)
(* RankFilters                                                              *)

BrandA == <<"a">>
BrandQ == <<"'">>

Product(b, p, dp, rt) ==
    [brand |-> b, price |-> p, mrp |-> 400, discount_percent |-> Some(dp * Scale),
     rating |-> rt, rating_total |-> 150]

RankRows ==
    { Product(Some(BrandA), 200, 50, Some(30)),
      Product(Some(BrandA), 100, 50, Some(30)),
      Product(Some(BrandA), 50, 30, Some(30)),
      Product(Some(BrandQ), 100, 50, Some(50)),
      Product(Null, 50, 60, Null) }

RankTables == UNION {[S -> {1, MaxCopies}] : S \in SUBSET RankRows}

Ties == {1, 2}

RunTopDiscounted ==
    /\ top_discounted = Null
    /\ \E tie \in Ties :
          top_discounted' =
              Some(top_discounted_rows(table, brand_sel, min_disc, min_rating, tie))
    /\ UNCHANGED << table, cacheVars, passVars, quoteVars, bandVars, packVars >>

InitRank ==
    /\ table \in RankTables /\ top_discounted = Null
    /\ brand_sel \in {<< >>, <<BrandA>>}
    /\ min_disc \in {0, 40}
    /\ min_rating \in {0, 40}
    /\ pc = "idle" /\ passes = 0 /\ brands = << >> /\ where_sql = << >> /\ kpis = Null
    /\ asked = << >> /\ rendered = {} /\ failure = NoFailure
    /\ IdleCache /\ IdleQuote /\ IdleBand /\ IdlePacks
NextRank == RunTopDiscounted
SpecRank == InitRank /\ [][NextRank]_vars

\* row a sorts strictly before row b: higher discount, or equal discount and
\* lower price
SortsBefore(a, b) ==
    \/ a.discount_percent[1] > b.discount_percent[1]
    \/ a.discount_percent[1] = b.discount_percent[1] /\ a.price < b.price

Occurrences(s, x) == Cardinality({i \in 1..Len(s) : s[i] = x})

\* whether the row passes the filter selection, clause by clause
Passes(row) ==
    /\ brand_sel = << >> \/ (row.brand # Null /\ \E i \in 1..Len(brand_sel) : brand_sel[i] = row.brand[1])
    /\ min_disc = 0 \/ row.discount_percent[1] >= min_disc * Scale
    /\ min_rating = 0 \/ (row.rating # Null /\ row.rating[1] >= min_rating)

\* C9: the top-discounted result holds at most LIMIT rows, all rows of the
\* table that satisfy the predicate, sorted by discount_percent descending and
\* then price ascending; it is full unless every matching row is in it, and no
\* row left out sorts before a row included.
C9_TopDiscounted ==
    top_discounted # Null =>
        LET res == top_discounted[1]
            M == {row \in DOMAIN table : Passes(row)}
        IN  /\ Len(res) <= LIMIT
            /\ \A i \in 1..Len(res) : res[i] \in M
            /\ \A x \in M : Occurrences(res, x) <= table[x]
            /\ \A i, j \in 1..Len(res) : i < j => ~SortsBefore(res[j], res[i])
            /\ Len(res) < LIMIT => \A x \in M : Occurrences(res, x) = table[x]
            /\ \A x \in M : Occurrences(res, x) < table[x] =>
                  \A i \in 1..Len(res) : ~SortsBefore(x, res[i])

\* the rows with discounts 50, 50, 30 and prices 200, 100, 50 come out as
\* (50, 100), (50, 200), (30, 50)
C9_Witness ==
    /\ table = [x \in { Product(Some(BrandA), 200, 50, Some(30)),
                        Product(Some(BrandA), 100, 50, Some(30)),
                        Product(Some(BrandA), 50, 30, Some(30)) } |-> 1]
    /\ top_discounted # Null
    /\ top_discounted[1] = << Product(Some(BrandA), 100, 50, Some(30)),
                              Product(Some(BrandA), 200, 50, Some(30)),
                              Product(Some(BrandA), 50, 30, Some(30)) >>

\* a table with more matching rows than LIMIT is cut at LIMIT, and rows of the
\* table are left out by the filter as well
C9_WitnessCut ==
    /\ top_discounted # Null
    /\ Len(top_discounted[1]) = LIMIT
    /\ \E x \in DOMAIN table : Passes(x) /\ Occurrences(top_discounted[1], x) < table[x]
    /\ \E x \in DOMAIN table : ~Passes(x)

-----------------------------------------------------------------------------
(* The render pass, lines 25-154: the script runs top to bottom; an        *)
(* exception that nothing catches ends the pass.                            *)

\* the code point order of the tokens of Alphabet
rank(c) == IF c = "'" THEN 39 ELSE IF c = ";" THEN 59 ELSE 97

RECURSIVE text_less(_, _)
text_less(a, b) ==
    IF a = << >> THEN b # << >>
    ELSE IF b = << >> THEN FALSE
    ELSE IF rank(Head(a)) # rank(Head(b)) THEN rank(Head(a)) < rank(Head(b))
    ELSE text_less(Tail(a), Tail(b))

brand_less(x, y) ==
    IF x = Null THEN FALSE ELSE IF y = Null THEN TRUE ELSE text_less(x[1], y[1])

\* SELECT DISTINCT brand ... ORDER BY 1 (line 36), NULL last
brands_rows(tbl) ==
    LET s == SortSeq(SetToSeq({row.brand : row \in DOMAIN tbl}), brand_less)
    IN  [i \in 1..Len(s) |-> [brand |-> s[i]]]

RECURSIVE dropna(_)
\* line 37: brands_df["brand"].dropna().tolist()
dropna(df) ==
    IF df = << >> THEN << >>
    ELSE (IF Head(df).brand = Null THEN << >> ELSE <<Head(df).brand[1]>>) \o dropna(Tail(df))

\* what the multiselect of line 39 can return: distinct options, in any order
Selections(options) ==
    {s \in UNION {[1..k -> {options[i] : i \in 1..Len(options)}] : k \in 0..Len(options)} :
        \A i, j \in 1..Len(s) : i # j => s[i] # s[j]}

\* what the sliders of lines 41-42 can return (the rating in tenths)
DiscChoices == {0, 1, 90}
RatingChoices == {0, 1, 50}

\* lines 66-69: the fallback summary
ZeroSummary ==
    [products |-> Some(0), avg_price |-> Some(0), avg_mrp |-> Some(0),
     avg_discount_pct |-> Some(0), no_discount_items |-> Some(0)]

\* line 66
kpis_of(df) == IF df # << >> THEN df[1] ELSE ZeroSummary

\* lines 71-76: int(None) raises TypeError; st.metric accepts None
kpi_metrics(k) ==
    IF k.products = Null THEN [raised |-> TRUE, shown |-> {}]
    ELSE IF k.no_discount_items = Null
    THEN [raised |-> TRUE, shown |-> {"Products", "Avg Price", "Avg MRP", "Avg Discount %"}]
    ELSE [raised |-> FALSE,
          shown |-> {"Products", "Avg Price", "Avg MRP", "Avg Discount %", "No-discount Items"}]

\* one call of q by the script: the cache, the history and, when q raises, the
\* end of the pass
Ask(name, sql, resp) ==
    LET o == q(cache, sql, resp, now) IN
    /\ CallQ(sql, resp)
    /\ asked' = Append(asked, [name |-> name, sql |-> sql, gateway |-> o.sent # << >>,
                               error |-> o.sent # << >> /\ resp.status = "error"])

Raised(name, sql, resp) == q(cache, sql, resp, now).raised
Result(name, sql, resp) == q(cache, sql, resp, now).df

Fail(name, sql, resp) ==
    /\ pc' = "failed"
    /\ failure' = [kind |-> "RuntimeError", msg |-> q(cache, sql, resp, now).msg, at |-> name]

Errors == {Err(m) : m \in Messages}

\* the first run of the script in a session
Start ==
    /\ pc = "idle"
    /\ pc' = "brands" /\ passes' = 1
    /\ rendered' = {"title"}
    /\ UNCHANGED << brands, brand_sel, min_disc, min_rating, where_sql, kpis, asked, failure >>
    /\ UNCHANGED << cacheVars, table, top_discounted, quoteVars, bandVars, packVars >>

\* a user interaction reruns the script from the top
Rerun ==
    /\ pc \in {"done", "failed"}
    /\ passes < MaxPasses
    /\ pc' = "brands" /\ passes' = passes + 1
    /\ brands' = << >> /\ brand_sel' = << >> /\ min_disc' = 0 /\ min_rating' = 0
    /\ where_sql' = << >> /\ kpis' = Null /\ asked' = << >> /\ failure' = NoFailure
    /\ rendered' = {"title"}
    /\ UNCHANGED << cacheVars, table, top_discounted, quoteVars, bandVars, packVars >>

\* lines 36-37
QueryBrands ==
    /\ pc = "brands"
    /\ \E resp \in {Ok(brands_rows(table))} \cup Errors :
          LET sql == brands_sql IN
          /\ Ask("brands", sql, resp)
          /\ IF Raised("brands", sql, resp)
             THEN Fail("brands", sql, resp) /\ brands' = brands
             ELSE /\ brands' = dropna(Result("brands", sql, resp))
                  /\ pc' = "filters" /\ failure' = failure
    /\ UNCHANGED << passes, brand_sel, min_disc, min_rating, where_sql, kpis, rendered >>
    /\ UNCHANGED << table, top_discounted, quoteVars, bandVars, packVars >>

\* lines 38-53, with the sliders returning a value of DS and of RS
Select(DS, RS) ==
    /\ pc = "filters"
    /\ \E sel \in Selections(brands), d \in DS, r \in RS :
          /\ brand_sel' = sel /\ min_disc' = d /\ min_rating' = r
          /\ where_sql' = where_of(sel, d, r)
    /\ rendered' = rendered \cup {"filters"}
    /\ pc' = "kpis"
    /\ UNCHANGED << passes, brands, kpis, asked, failure >>
    /\ UNCHANGED << cacheVars, table, top_discounted, quoteVars, bandVars, packVars >>

SelectFilters == Select(DiscChoices, RatingChoices)

\* the filters of a session that only moves each slider between its start and
\* one other value
SelectInSession == Select({0, 90}, {0, 45})

\* the answers of the gateway to the KPI query: the one aggregate row, or, for
\* a gateway that drops the aggregate row of an empty input, no row
KpiAnswers ==
    LET row == kpis_row(table, brand_sel, min_disc, min_rating) IN
    {Ok(<<row>>)} \cup (IF row.products = Some(0) THEN {Ok(<< >>)} ELSE {})

\* lines 56-76
QueryKpis ==
    /\ pc = "kpis"
    /\ \E resp \in KpiAnswers \cup Errors :
          LET sql == kpis_sql(where_sql) IN
          /\ Ask("kpis", sql, resp)
          /\ IF Raised("kpis", sql, resp)
             THEN Fail("kpis", sql, resp) /\ UNCHANGED << kpis, rendered >>
             ELSE LET k == kpis_of(Result("kpis", sql, resp))
                      m == kpi_metrics(k)
                  IN  /\ kpis' = Some(k)
                      /\ rendered' = rendered \cup m.shown
                      /\ IF m.raised
                         THEN /\ pc' = "failed"
                              /\ failure' = [kind |-> "TypeError", msg |-> "int(None)",
                                             at |-> "kpis"]
                         ELSE pc' = "bands" /\ failure' = failure
    /\ UNCHANGED << passes, brands, brand_sel, min_disc, min_rating, where_sql >>
    /\ UNCHANGED << table, top_discounted, quoteVars, bandVars, packVars >>

\* lines 79-99
QueryBands ==
    /\ pc = "bands"
    /\ \E resp \in {Ok(bands_rows(table, brand_sel, min_disc, min_rating))} \cup Errors :
          LET sql == bands_sql(where_sql) IN
          /\ Ask("bands", sql, resp)
          /\ IF Raised("bands", sql, resp)
             THEN Fail("bands", sql, resp) /\ rendered' = rendered
             ELSE /\ rendered' = rendered \cup
                      {"Discount bands",
                       IF Result("bands", sql, resp) # << >> THEN "bands chart" ELSE "bands info"}
                  /\ pc' = "price_buckets" /\ failure' = failure
    /\ UNCHANGED << passes, brands, brand_sel, min_disc, min_rating, where_sql, kpis >>
    /\ UNCHANGED << table, top_discounted, quoteVars, bandVars, packVars >>

\* lines 102-130
QueryPriceBuckets ==
    /\ pc = "price_buckets"
    /\ \E resp \in {Ok(price_buckets_rows(table, brand_sel, min_disc, min_rating))} \cup Errors :
          LET sql == price_buckets_sql(where_sql) IN
          /\ Ask("price_buckets", sql, resp)
          /\ IF Raised("price_buckets", sql, resp)
             THEN Fail("price_buckets", sql, resp) /\ rendered' = rendered
             ELSE /\ rendered' = rendered \cup
                      {"Price buckets", "Avg discount by price bucket",
                       IF Result("price_buckets", sql, resp) # << >>
                       THEN "price charts" ELSE "price info"}
                  /\ pc' = "top_discounted" /\ failure' = failure
    /\ UNCHANGED << passes, brands, brand_sel, min_disc, min_rating, where_sql, kpis >>
    /\ UNCHANGED << table, top_discounted, quoteVars, bandVars, packVars >>

\* lines 133-139
QueryTopDiscounted ==
    /\ pc = "top_discounted"
    /\ \E resp \in {Ok(top_discounted_rows(table, brand_sel, min_disc, min_rating, tie)) :
                       tie \in Ties} \cup Errors :
          LET sql == top_discounted_sql(where_sql) IN
          /\ Ask("top_discounted", sql, resp)
          /\ IF Raised("top_discounted", sql, resp)
             THEN Fail("top_discounted", sql, resp)
             ELSE pc' = "top_rated" /\ failure' = failure
    /\ UNCHANGED << passes, brands, brand_sel, min_disc, min_rating, where_sql, kpis, rendered >>
    /\ UNCHANGED << table, top_discounted, quoteVars, bandVars, packVars >>

\* lines 140-154
QueryTopRated ==
    /\ pc = "top_rated"
    /\ \E resp \in {Ok(top_rated_rows(table, brand_sel, min_disc, min_rating, tie)) :
                       tie \in Ties} \cup Errors :
          LET sql == top_rated_sql(where_sql) IN
          /\ Ask("top_rated", sql, resp)
          /\ IF Raised("top_rated", sql, resp)
             THEN Fail("top_rated", sql, resp) /\ rendered' = rendered
             ELSE /\ rendered' = rendered \cup
                      {"Top discounted (50)", "Top rated by volume (50)", "caption"}
                  /\ pc' = "done" /\ failure' = failure
    /\ UNCHANGED << passes, brands, brand_sel, min_disc, min_rating, where_sql, kpis >>
    /\ UNCHANGED << table, top_discounted, quoteVars, bandVars, packVars >>

\* time passes between two runs of the script
Wait == pc \in {"done", "failed"} /\ passes < MaxPasses /\ Advance(TTL)

-----------------------------------------------------------------------------
(* The catalogs *)

BrandStrings == StringsUpTo(MaxBrandLen)

CatalogRow(b) == Product(b, 100, 50, Some(40))

Catalog(B) == [x \in {CatalogRow(b) : b \in B} |-> 1]

\* the empty catalog, and for every brand over Alphabet the catalog of that
\* brand and the brand that is a lone quote
WideCatalogs ==
    {Catalog({Some(b), Some(<<"'">>)}) : b \in BrandStrings} \cup {Catalog({})}

\* an empty catalog, and one with a NULL brand and a brand that holds a quote
\* and a statement separator
Catalogs == { Catalog({}), Catalog({Null, Some(<<"a", "'", ";">>)}) }

InitPass ==
    /\ IdleCache /\ IdlePass /\ IdleQuote /\ IdleBand /\ IdlePacks
    /\ top_discounted = Null

\* SpecFirstPass: the first render pass of a session, on every catalog of
\* WideCatalogs
InitFirstPass == InitPass /\ table \in WideCatalogs
NextFirstPass ==
    \/ Start \/ QueryBrands \/ SelectFilters \/ QueryKpis \/ QueryBands
    \/ QueryPriceBuckets \/ QueryTopDiscounted \/ QueryTopRated
SpecFirstPass == InitFirstPass /\ [][NextFirstPass]_vars

\* Spec: up to MaxPasses render passes over one process-wide cache
Init == InitPass /\ table \in Catalogs
Next ==
    \/ Start \/ Rerun \/ QueryBrands \/ SelectInSession \/ QueryKpis \/ QueryBands
    \/ QueryPriceBuckets \/ QueryTopDiscounted \/ QueryTopRated \/ Wait
Spec == Init /\ [][Next]_vars

-----------------------------------------------------------------------------
(* How the gateway reads a text: the tokens outside string literals (the   *)
(* statement) and the values of the literals                                *)

RECURSIVE scan(_, _, _, _)
\* skel is the text with every literal replaced by "?", lits the decoded
\* literals; closed is FALSE when a literal never ends
scan(t, i, skel, lits) ==
    IF i > Len(t) THEN [closed |-> TRUE, skel |-> skel, lits |-> lits]
    ELSE IF t[i] # "'" THEN scan(t, i + 1, Append(skel, t[i]), lits)
    ELSE LET r == read_literal(t, i + 1, << >>) IN
         IF r.closed THEN scan(t, r.next, Append(skel, "?"), Append(lits, r.value))
         ELSE [closed |-> FALSE, skel |-> skel, lits |-> lits]

Read(t) == scan(t, 1, << >>, << >>)

RECURSIVE marks(_)
\* n placeholders separated by commas
marks(n) == IF n = 0 THEN << >> ELSE IF n = 1 THEN <<"?">> ELSE <<"?", ",">> \o marks(n - 1)

\* C4: the predicate is the AND of 1=1 and exactly: a brand IN (...) clause
\* iff a brand is selected (one literal per selected brand, in order), a
\* discount_percent >= d clause iff d > 0, a rating >= r clause iff r > 0; for
\* the empty selection it is 1=1 alone and matches every row.
C4_WherePredicate ==
    where_sql # << >> =>
        /\ Read(where_sql).closed
        /\ Read(where_sql).lits = brand_sel
        /\ Read(where_sql).skel =
              <<"1=1">>
              \o (IF Len(brand_sel) > 0
                  THEN <<" AND ", "brand IN (">> \o marks(Len(brand_sel)) \o <<")">>
                  ELSE << >>)
              \o (IF min_disc > 0
                  THEN <<" AND ", "discount_percent >= ", ToString(min_disc)>>
                  ELSE << >>)
              \o (IF min_rating > 0
                  THEN <<" AND ", "rating >= ", ToString(min_rating \div 10), ".",
                         ToString(min_rating % 10)>>
                  ELSE << >>)
        /\ (brand_sel = << >> /\ min_disc = 0 /\ min_rating = 0) =>
              /\ where_sql = <<"1=1">>
              /\ matching(table, brand_sel, min_disc, min_rating) = DOMAIN table

\* two brands with quotes selected, with both thresholds set
C4_Witness ==
    /\ Len(brand_sel) = 2 /\ brand_sel[1] = <<"'", "a">> /\ brand_sel[2] = <<"'">>
    /\ min_disc = 90 /\ min_rating = 1
    /\ where_sql # << >>

\* the empty selection on a catalog that has rows
C4_WitnessEmpty ==
    /\ where_sql = <<"1=1">> /\ brand_sel = << >> /\ DOMAIN table # {}
    /\ pc = "kpis"

\* the six queries of the pass, by name
query(name, w) ==
    IF name = "brands" THEN brands_sql
    ELSE IF name = "kpis" THEN kpis_sql(w)
    ELSE IF name = "bands" THEN bands_sql(w)
    ELSE IF name = "price_buckets" THEN price_buckets_sql(w)
    ELSE IF name = "top_discounted" THEN top_discounted_sql(w)
    ELSE top_rated_sql(w)

\* the predicate of a selection of as many brands, each of them the plain "a"
PlainWhere ==
    <<"1=1">>
    \o (IF Len(brand_sel) > 0
        THEN <<" AND ", "brand IN (">>
             \o join(<<",">>, [i \in 1..Len(brand_sel) |-> <<"'", "a", "'">>]) \o <<")">>
        ELSE << >>)
    \o (IF min_disc > 0 THEN <<" AND ", "discount_percent >= ", ToString(min_disc)>> ELSE << >>)
    \o (IF min_rating > 0
        THEN <<" AND ", "rating >= ", ToString(min_rating \div 10), ".", ToString(min_rating % 10)>>
        ELSE << >>)

\* C5: each SQL text handed to the gateway is a single SELECT statement: it
\* starts with SELECT, every literal in it is closed, no statement separator
\* stands outside a literal, and the statement outside the literals is the one
\* the same query has for plain brands, with the selected brands as its last
\* literals, so that no brand value ends its literal and adds SQL of its own.
C5_SelectOnly ==
    \A i \in 1..Len(asked) :
        asked[i].gateway =>
            LET t == Read(asked[i].sql) IN
            /\ t.closed
            /\ t.skel[1] = "SELECT"
            /\ \A k \in 1..Len(t.skel) : t.skel[k] # ";"
            /\ t.skel = Read(query(asked[i].name, PlainWhere)).skel
            /\ Len(t.lits) = Len(Read(query(asked[i].name, PlainWhere)).lits)
            /\ asked[i].name # "brands" =>
                  \A k \in 1..Len(brand_sel) :
                      t.lits[Len(t.lits) - Len(brand_sel) + k] = brand_sel[k]

\* a whole pass whose selected brands hold a quote and a statement separator
C5_Witness ==
    /\ pc = "done" /\ Len(asked) = 6
    /\ \A i \in 1..6 : asked[i].gateway
    /\ brand_sel = << <<"'", ";">>, <<"'">> >>
    /\ min_disc = 1

\* C6: when the current predicate matches no product rows, the KPI step does
\* not raise and yields a summary with products = 0 and zero-valued avg_price,
\* avg_mrp, avg_discount_pct and no_discount_items, whether the gateway
\* returned no rows or the aggregate row of an empty input.
C6_KpiEmptyZero ==
    (kpis # Null /\ matching(table, brand_sel, min_disc, min_rating) = {}) =>
        /\ failure.kind # "TypeError"
        /\ kpis[1] = ZeroSummary

\* the case the fallback of lines 66-69 covers: the gateway returned no rows
C6_WitnessNoRows ==
    /\ kpis = Some(ZeroSummary) /\ pc = "bands"
    /\ matching(table, brand_sel, min_disc, min_rating) = {}

-----------------------------------------------------------------------------
(* The order of the queries and the sections that show their results *)

QueryOrder ==
    <<"brands", "kpis", "bands", "price_buckets", "top_discounted", "top_rated">>

SectionsOf(name) ==
    IF name = "brands" THEN {"filters"}
    ELSE IF name = "kpis"
    THEN {"Products", "Avg Price", "Avg MRP", "Avg Discount %", "No-discount Items"}
    ELSE IF name = "bands" THEN {"Discount bands", "bands chart", "bands info"}
    ELSE IF name = "price_buckets"
    THEN {"Price buckets", "Avg discount by price bucket", "price charts", "price info"}
    ELSE IF name = "top_discounted" THEN {"Top discounted (50)"}
    ELSE {"Top rated by volume (50)"}

\* C10: within a pass q is called in the fixed order brands, kpis, bands,
\* price_buckets, top_discounted, top_rated, and no SQL text reaches the
\* gateway twice.  When the gateway reports an error for a query, the failure
\* with the gateway's message ends the pass at that query: it is the last
\* call of the pass, and no section of that query or of a later one is drawn.
C10_PassOrder ==
    /\ Len(asked) <= Len(QueryOrder)
    /\ \A i \in 1..Len(asked) : asked[i].name = QueryOrder[i]
    /\ \A i, j \in 1..Len(asked) :
          (i < j /\ asked[i].gateway /\ asked[j].gateway) => asked[i].sql # asked[j].sql
    /\ \A i \in 1..Len(asked) :
          asked[i].error =>
              /\ i = Len(asked)
              /\ pc = "failed"
              /\ failure.kind = "RuntimeError"
              /\ failure.at = asked[i].name
              /\ failure.msg = last_call.resp.message
              /\ \A k \in i..Len(QueryOrder) : rendered \cap SectionsOf(QueryOrder[k]) = {}
    /\ failure.kind = "RuntimeError" => (asked # << >> /\ asked[Len(asked)].error)

\* in a second pass the first three queries are served from the cache and the
\* gateway reports an error for the fourth
C10_Witness ==
    /\ passes = 2 /\ pc = "failed" /\ Len(asked) = 4
    /\ ~asked[1].gateway /\ ~asked[2].gateway /\ ~asked[3].gateway
    /\ asked[4].error
    /\ "Discount bands" \in rendered

-----------------------------------------------------------------------------
(* The insight-pack viewer, lines 159-206.  A file of the directory is      *)
(* "absent", or listed by the glob with one of the contents of Contents:    *)
(* gone or unreadable when read, not JSON, or a JSON text.                  *)

Contents ==
    {"gone", "unreadable", "not json", "[]", "[1]", "{}", "{bullets, kpis, tables}"}

\* what the generator leaves behind: no file, a file cut short, a whole pack
Written == {"absent", "not json", "{bullets, kpis, tables}"}

\* what json.loads gives for the JSON texts: the type of the value, whether
\* Python takes it for false, and whether it is a dict that has .get
EmptyDict == [type |-> "dict", falsy |-> TRUE]

parse(content) ==
    IF content = "[]" THEN [type |-> "list", falsy |-> TRUE]
    ELSE IF content = "[1]" THEN [type |-> "list", falsy |-> FALSE]
    ELSE IF content = "{}" THEN EmptyDict
    ELSE [type |-> "dict", falsy |-> FALSE]

\* lines 168-171: any exception of read_text or json.loads gives {}
read_pack(content) ==
    IF content \in {"gone", "unreadable", "not json"} THEN EmptyDict ELSE parse(content)

\* lines 166-167: lru_cache(maxsize=256) keeps the first value per path; the
\* MaxPacks paths never fill it
load_pack(m, path, content) ==
    IF \E e \in m : e.path = path
    THEN [value |-> (CHOOSE e \in m : e.path = path).value, memo |-> m, fresh |-> FALSE]
    ELSE [value |-> read_pack(content),
          memo |-> m \cup {[path |-> path, value |-> read_pack(content)]},
          fresh |-> TRUE]

Labels == 1..MaxPacks

\* line 174: the files the glob lists, sorted
pack_files == SortSeq(SetToSeq({l \in Labels : pack_state[l] # "absent"}), <)

min(a, b) == IF a < b THEN a ELSE b
max(a, b) == IF a > b THEN a ELSE b

\* the generator writes, replaces or removes a file between two passes
Generate ==
    /\ pack_pc \in {"done", "failed"}
    /\ passes < MaxPasses
    /\ \E l \in Labels, c \in Written :
          /\ pack_state[l] # c
          /\ pack_state' = [pack_state EXCEPT ![l] = c]
    /\ UNCHANGED << memo, chosen, pack_i, pack_view, pack_pc >>
    /\ UNCHANGED << cacheVars, passVars, quoteVars, bandVars, rankVars >>

\* lines 174-184: the glob, the multiselect and the columns
OpenPacks ==
    /\ pack_pc \in {"idle", "done", "failed"}
    /\ passes < MaxPasses
    /\ passes' = passes + 1
    /\ pack_view' = << >>
    /\ IF pack_files = << >>
       THEN chosen' = << >> /\ pack_i' = 0 /\ pack_pc' = "done"
       ELSE \E sel \in Selections(pack_files) :
               /\ chosen' = sel
               /\ pack_i' = 1
               /\ pack_pc' = IF sel = << >> THEN "done" ELSE "loop"
    /\ UNCHANGED << pack_state, memo >>
    /\ UNCHANGED << pc, brands, brand_sel, min_disc, min_rating, where_sql, kpis, asked,
                    rendered, failure >>
    /\ UNCHANGED << cacheVars, quoteVars, bandVars, rankVars >>

\* lines 185-206: one turn of the loop.  pack.get of a value that is no dict
\* raises AttributeError, which nothing catches.
ViewPack ==
    /\ pack_pc = "loop"
    /\ LET f == chosen[pack_i]
           ncols == max(1, min(3, Len(chosen)))
           r == load_pack(memo, f, pack_state[f])
           shown(result) ==
               Append(pack_view, [label |-> f, col |-> (pack_i - 1) % ncols,
                                  content |-> pack_state[f], fresh |-> r.fresh,
                                  value |-> r.value, result |-> result])
       IN  /\ memo' = r.memo
           /\ IF r.value.falsy
              THEN /\ pack_view' = shown("warning")
                   /\ pack_i' = pack_i + 1
                   /\ pack_pc' = IF pack_i = Len(chosen) THEN "done" ELSE "loop"
              ELSE IF r.value.type # "dict"
              THEN /\ pack_view' = shown("AttributeError")
                   /\ pack_i' = pack_i
                   /\ pack_pc' = "failed"
              ELSE /\ pack_view' = shown("rendered")
                   /\ pack_i' = pack_i + 1
                   /\ pack_pc' = IF pack_i = Len(chosen) THEN "done" ELSE "loop"
    /\ UNCHANGED << pack_state, chosen >>
    /\ UNCHANGED << cacheVars, passVars, quoteVars, bandVars, rankVars >>

InitPacks ==
    /\ pack_state \in [Labels -> Contents \cup {"absent"}]
    /\ memo = {} /\ chosen = << >> /\ pack_i = 0 /\ pack_view = << >> /\ pack_pc = "idle"
    /\ IdleCache /\ IdlePass /\ IdleQuote /\ IdleBand /\ IdleRank
NextPacks == Generate \/ OpenPacks \/ ViewPack
SpecPacks == InitPacks /\ [][NextPacks]_vars

\* C7: whatever the state of a selected pack file (gone, unreadable, no JSON,
\* or JSON whose top level is not an object), load_pack returns without
\* raising, with an empty structure on a read or parse failure, and the viewer
\* shows a warning for that pack only and goes on to the other selected packs:
\* the view is never aborted.
C7_BadPackContained ==
    /\ pack_pc # "failed"
    /\ \A i \in 1..Len(pack_view) :
          LET v == pack_view[i] IN
          /\ (v.fresh /\ v.content \in {"gone", "unreadable", "not json"}) =>
                v.value = EmptyDict
          /\ (v.fresh /\ v.content \in Contents \ {"{}", "{bullets, kpis, tables}"}) =>
                v.result = "warning"
    /\ pack_pc = "done" => Len(pack_view) = Len(chosen)

\* a pack that is no JSON gets its warning and the pack after it is rendered
C7_WitnessContained ==
    /\ pack_pc = "done" /\ Len(pack_view) = 2
    /\ pack_view[1].content = "not json" /\ pack_view[1].result = "warning"
    /\ pack_view[2].result = "rendered"

====
